---- MODULE Spec2Model ----
(***************************************************************************)
(* Strategy-recommendation and correction-learning loop of ubs-oms-mcp:    *)
(* the policy store (learning_pipeline/train.py, deploy.py), the prompt    *)
(* loader (mcp_server/config.py) and the strategy recommender              *)
(* (mcp_server/tools/strategy.py).                                         *)
(*                                                                         *)
(* A text file is a sequence of string tokens; NL is the newline token.    *)
(* A file is a record [exists, text].  The files prompts/strategy_<x>.txt   *)
(* are named by <x>: "v1", "v2", ... and "current".                        *)
(***************************************************************************)
EXTENDS Integers, Sequences, FiniteSets, TLC

\* ------------------------------------------------------------------ bounds
\* highest version number train may create in the model (single digit)
MaxVersion == 3
\* the wall clock runs through the seconds 1..MaxTime
MaxTime == 3

\* the rule fallback is tried on the quantities within Near shares of each
\* band boundary of each security
Near == 1

\* the calendar runs through the days 1..MaxDay
MaxDay == 2
\* at most MaxCaptures calls of capture are followed
MaxCaptures == 2
\* the analyzer is tried on every list of at most MaxList corrections of a
\* few kinds, and on lists that hold up to MaxPerSecurity corrections for
\* each of four securities
MaxList == 4
MaxPerSecurity == 2
\* the largest number of few-shot examples, and of insights, of one augmentation
MaxExamples == 2

\* ------------------------------------------------------- program constants
\* train.py:126, default of min_corrections (the value the CLI passes, :227)
MinCorrections == 3

NL == "\n"
\* "=" * 80
RULE == "===="
\* train.py:89
insert_marker == "Return ONLY valid JSON"

\* version ids "v<N>" and their numbers (f"v{new_version_num}", int(...))
VName == <<"v1", "v2", "v3", "v4", "v5", "v6", "v7", "v8", "v9">>
VNum(name) == CHOOSE n \in 1..9 : VName[n] = name
IsVName(name) == \E n \in 1..9 : VName[n] = name

NoFile == [exists |-> FALSE, text |-> <<>>]
File(t) == [exists |-> TRUE, text |-> t]

\* the base policy data/prompts/strategy_v1.txt
V1Text == <<"You are an execution strategist.", NL, insert_marker, " in the schema below.">>

\* ------------------------------------------------------------ text helpers
Range(s) == {s[i] : i \in 1..Len(s)}

\* index of the first occurrence of token tok in s, 0 when absent
IndexOf(s, tok) ==
    IF tok \in Range(s)
    THEN CHOOSE i \in 1..Len(s) : s[i] = tok /\ \A j \in 1..(i - 1) : s[j] # tok
    ELSE 0

\* s.split(tok)[0]
Before(s, tok) ==
    IF IndexOf(s, tok) = 0 THEN s ELSE SubSeq(s, 1, IndexOf(s, tok) - 1)

\* everything after the first occurrence of tok
After(s, tok) == SubSeq(s, IndexOf(s, tok) + 1, Len(s))

RECURSIVE LStrip(_)
LStrip(s) == IF s # <<>> /\ Head(s) \in {" ", NL} THEN LStrip(Tail(s)) ELSE s

RECURSIVE RStrip(_)
RStrip(s) ==
    IF s # <<>> /\ s[Len(s)] \in {" ", NL} THEN RStrip(SubSeq(s, 1, Len(s) - 1)) ELSE s

\* str.strip()
Strip(s) == RStrip(LStrip(s))

\* the string a token sequence spells; the sequences parsed here spell one
\* version id (one token) or nothing
Spell(s) == IF s = <<>> THEN "" ELSE s[1]

\* sep.join(items), items being token sequences
RECURSIVE Join(_, _)
Join(items, sep) ==
    IF items = <<>> THEN <<>>
    ELSE IF Len(items) = 1 THEN items[1]
    ELSE items[1] \o <<sep>> \o Join(Tail(items), sep)

\* ------------------------------------------------------------------- state
VARIABLES
    prompts,        \* prompts/strategy_<x>.txt : name <x> -> text
    metaFiles,      \* prompts/strategy_v<N>_metadata.json : version id -> record
    backups,        \* prompts/backups/strategy_<v>_backup_<ts>.txt : set of [version, ts]
    deployLogs,     \* prompts/deployment_log_<v>.json : version -> record
    now,            \* the wall clock, in seconds
    procVersion,    \* config.CURRENT_STRATEGY_PROMPT_VERSION of the running recommender
    useMock,        \* config.USE_MOCK_LLM of the running recommender
    restarted,      \* history: the recommender was restarted after the latest deploy
    rec,            \* history: the recommendation request served last
    last,           \* history: the pipeline operation that ran last
    lastDeployed,   \* history: version of the latest successful non-dry-run deploy
    latestBackup,   \* history: the backup that was created last
    trainCount,     \* history: number of successful train runs
    corrFiles,      \* corrections/<date>/<id>.json : <<date, id>> -> text
    today,          \* the calendar day of the wall clock
    capt,           \* history: the correction-store operation that ran last
    captured,       \* history: per <<day, id>>, what capture was asked to store
    ana,            \* history: the analyzer's input and result
    aug,            \* history: the prompt augmentation's input and result
    race,           \* the train processes: position and locals of each, and history
    writers,        \* the capture processes: position and locals of each, and history
    mcp             \* the gateway's MCPClient: session, lock, its coroutines, and history

storeVars == <<prompts, metaFiles, backups, deployLogs>>
procVars == <<procVersion, useMock>>
recVars == <<restarted, rec>>
histVars == <<last, lastDeployed, latestBackup, trainCount>>
corrVars == <<corrFiles, today, capt, captured, ana>>
auxVars == <<aug, race, writers, mcp>>
vars == <<prompts, metaFiles, backups, deployLogs, now,
          procVersion, useMock, restarted, rec, last, lastDeployed, latestBackup,
          trainCount, corrFiles, today, capt, captured, ana, aug, race, writers, mcp>>

\* --------------------------------------------------------- learning_pipeline
\* analysis["patterns"] of analyze_strategy_corrections, as far as train uses
\* it: each pattern has a type and an insight line
PatFrequent == [type |-> "frequent_correction", insight |-> "AI frequently suggests TWAP but users prefer VWAP"]
PatSecurity == [type |-> "security_specific", insight |-> "For AAPL, users prefer VWAP"]
PatternLists == {<<>>, <<PatFrequent, PatSecurity>>}

\* (number of records load_corrections returns, number of strategy
\* corrections among them): one short of the minimum, and enough
CorrectionCounts ==
    {<<MinCorrections - 1, MinCorrections - 1>>,
     <<MinCorrections, MinCorrections - 1>>,
     <<MinCorrections, MinCorrections>>}

\* train.py generate_few_shot_examples: one example per pattern of a known type
ExampleOf(pattern) ==
    IF pattern.type = "security_specific" THEN <<"Example: historical user preference">>
    ELSE IF pattern.type = "frequent_correction" THEN <<"Example: AI initially suggested">>
    ELSE <<"Example: order size">>

generate_few_shot_examples(patterns) ==
    [i \in 1..Len(patterns) |-> ExampleOf(patterns[i])]

ExampleLabel == <<"[Example 1]", "[Example 2]", "[Example 3]">>

RECURSIVE ExampleItems(_, _)
ExampleItems(examples, i) ==
    IF i > Len(examples) THEN <<>>
    ELSE << <<NL, ExampleLabel[i]>>, examples[i] >> \o ExampleItems(examples, i + 1)

\* train.py create_updated_prompt
create_updated_prompt(base_prompt, few_shot_examples, insights) ==
    IF insert_marker \in Range(base_prompt)
    THEN LET few_shot_section ==
                 (IF few_shot_examples # <<>>
                  THEN << <<NL>>, <<RULE>>, <<"LEARNED FROM USER CORRECTIONS (Few-Shot Examples):">>, <<RULE>> >>
                       \o ExampleItems(few_shot_examples, 1)
                  ELSE <<>>)
                 \o (IF insights # <<>>
                     THEN << <<NL>>, <<"Key Insights from Corrections:">> >>
                          \o [i \in 1..Len(insights) |-> <<"- ", insights[i]>>]
                     ELSE <<>>)
                 \o << <<NL>>, <<RULE>>, <<>> >>
         IN Before(base_prompt, insert_marker) \o Join(few_shot_section, NL)
            \o <<NL, insert_marker>> \o After(base_prompt, insert_marker)
    ELSE base_prompt \o <<NL, NL>> \o Join(few_shot_examples, NL)

\* the augmentation's input and result
NoAug == [op |-> "none", base_prompt |-> <<>>, few_shot_examples |-> <<>>,
          insights |-> <<>>, updated |-> <<>>]

\* the file prompts/strategy_<name>.txt
PromptFile(name) ==
    IF name \in DOMAIN prompts THEN File(prompts[name]) ELSE NoFile

\* the prompt files after path.write_text(text) on strategy_<name>.txt
WritePrompt(name, text) ==
    [x \in DOMAIN prompts \cup {name} |-> IF x = name THEN text ELSE prompts[x]]

\* config.py load_prompt("strategy", version)
load_prompt(version) ==
    IF PromptFile(version).exists THEN PromptFile(version).text
    ELSE IF PromptFile("v1").exists THEN PromptFile("v1").text
    ELSE <<>>

\* train.py:171-178, the numbers of PROMPTS_DIR.glob("strategy_v*.txt")
Max(S) == CHOOSE m \in S : \A x \in S : x <= m
version_numbers == {VNum(v) : v \in {x \in DOMAIN prompts : IsVName(x)}}

\* train.py:180
new_version_num_no_increment ==
    IF version_numbers = {} THEN 0 ELSE Max(version_numbers)

new_version_num ==
    (IF version_numbers = {} THEN 0 ELSE Max(version_numbers)) + 1

\* deploy.py:124, the name of the "current" marker file
current_marker_is_v1 == "v1"

current_marker == "current"

\* deploy.py get_current_version, for a given strategy_current.txt
get_current_version_unstripped(file) ==
    IF file.exists
    THEN LET first_line == Before(file.text, NL)
         IN IF "VERSION:" \in Range(first_line)
            THEN Spell(Before(After(first_line, "VERSION:"), "VERSION:"))
            ELSE "v1"
    ELSE "v1"

get_current_version_of(file) ==
    IF file.exists
    THEN LET first_line == Before(file.text, NL)
         IN IF "VERSION:" \in Range(first_line)
            THEN Spell(Strip(Before(After(first_line, "VERSION:"), "VERSION:")))
            ELSE "v1"
    ELSE "v1"

get_current_version == get_current_version_of(PromptFile("current"))

\* deploy.py:131, versioned_content (the deployment time in the second
\* header line is never read back and is left out)
versioned_content_previous(version, content) ==
    <<"# ", "VERSION:", " ", get_current_version, NL, "# DEPLOYED: <isoformat time>", NL, NL>>
        \o content

versioned_content(version, content) ==
    <<"# ", "VERSION:", " ", version, NL, "# DEPLOYED: <isoformat time>", NL, NL>> \o content

\* deploy.py:79, version_file.exists()
version_file_exists_unchecked(version) == TRUE

version_file_exists(version) == PromptFile(version).exists

\* deploy.py:177-188: the name that sorts highest among the backups
\* "strategy_<v>_backup_<ts>.txt"; the names differ first in <v>
NameLess(a, b) ==
    \/ VNum(a.version) < VNum(b.version)
    \/ a.version = b.version /\ a.ts < b.ts

latest_backup == CHOOSE b \in backups : \A c \in backups : c = b \/ NameLess(c, b)

\* ------------------------------------------------------ strategy recommender
\* config.py MARKET_DATA
MARKET_DATA ==
    [AAPL  |-> [adv |-> 52000000, recent_volatility |-> "LOW"],
     MSFT  |-> [adv |-> 42000000, recent_volatility |-> "LOW"],
     GOOGL |-> [adv |-> 26000000, recent_volatility |-> "MEDIUM"],
     TSLA  |-> [adv |-> 88000000, recent_volatility |-> "HIGH"],
     NOVN  |-> [adv |-> 3200000, recent_volatility |-> "LOW"],
     NESN  |-> [adv |-> 5300000, recent_volatility |-> "LOW"]]

\* config.py ALLOWED_STRATEGIES
ALLOWED_STRATEGIES == {"VWAP", "TWAP", "POV", "MOC"}

\* strategy.py get_market_context
get_market_context(security) ==
    IF security \in DOMAIN MARKET_DATA THEN MARKET_DATA[security]
    ELSE [adv |-> 1000000, recent_volatility |-> "MEDIUM"]

\* strategy.py:80, order_pct = (quantity / adv) * 100 if adv > 0 else 0, kept
\* as the exact fraction num/den.  For the integers of the model the float
\* comparisons of the code agree with the exact ones: a quantity of exactly
\* b% of adv gives the float b for b in 1, 5, 10, 15, and any other quantity
\* is at least 1/adv away from a boundary.
OrderPct_ratio(quantity, adv) ==
    IF adv > 0 THEN [num |-> quantity, den |-> adv] ELSE [num |-> 0, den |-> 1]

OrderPct(quantity, adv) ==
    IF adv > 0 THEN [num |-> 100 * quantity, den |-> adv] ELSE [num |-> 0, den |-> 1]

\* order_pct > bound
PctAbove(order_pct, bound) == order_pct.num > bound * order_pct.den

\* round(order_pct, 2), in hundredths of a percent (no quantity of the model
\* lies exactly between two hundredths)
Round2(order_pct) ==
    LET whole == order_pct.num \div order_pct.den
        r0 == order_pct.num % order_pct.den
        d1 == (10 * r0) \div order_pct.den
        r1 == (10 * r0) % order_pct.den
        d2 == (10 * r1) \div order_pct.den
        r2 == (10 * r1) % order_pct.den
    IN 100 * whole + 10 * d1 + d2 + (IF 2 * r2 >= order_pct.den THEN 1 ELSE 0)

\* strategy.py _mock_strategy_suggestion; the reasoning text is kept as the
\* phrase that names the band
mock_bands_inclusive(order_pct) ==
    IF order_pct.num >= 10 * order_pct.den
    THEN [strategy |-> "VWAP", reasoning |-> "Large order", risk |-> "HIGH"]
    ELSE IF order_pct.num >= 5 * order_pct.den
    THEN [strategy |-> "VWAP", reasoning |-> "Moderate-large order", risk |-> "MODERATE"]
    ELSE IF order_pct.num >= 1 * order_pct.den
    THEN [strategy |-> "TWAP", reasoning |-> "Medium order", risk |-> "LOW"]
    ELSE [strategy |-> "TWAP", reasoning |-> "Small order", risk |-> "LOW"]

mock_bands(order_pct) ==
    IF PctAbove(order_pct, 10)
    THEN [strategy |-> "VWAP", reasoning |-> "Large order", risk |-> "HIGH"]
    ELSE IF PctAbove(order_pct, 5)
    THEN [strategy |-> "VWAP", reasoning |-> "Moderate-large order", risk |-> "MODERATE"]
    ELSE IF PctAbove(order_pct, 1)
    THEN [strategy |-> "TWAP", reasoning |-> "Medium order", risk |-> "LOW"]
    ELSE [strategy |-> "TWAP", reasoning |-> "Small order", risk |-> "LOW"]

\* strategy.py:171-173, the size-split warning
mock_warnings_inclusive(order_pct) ==
    IF order_pct.num >= 15 * order_pct.den
    THEN <<"consider splitting across multiple days">> ELSE <<>>

mock_warnings(order_pct) ==
    IF PctAbove(order_pct, 15)
    THEN <<"consider splitting across multiple days">> ELSE <<>>

_mock_strategy_suggestion(security, quantity, order_pct, time_in_force) ==
    [suggested_strategy |-> mock_bands(order_pct).strategy,
     reasoning |-> mock_bands(order_pct).reasoning,
     warnings |-> mock_warnings(order_pct),
     market_impact_risk |-> mock_bands(order_pct).risk,
     behavioral_notes |-> "Rule-based recommendation (LLM unavailable)",
     context |-> [adv |-> get_market_context(security).adv,
                  order_pct_adv |-> Round2(order_pct),
                  volatility |-> get_market_context(security).recent_volatility]]

\* result.get(key, default) on the JSON object of the completion
Get(result, key, default) == IF key \in DOMAIN result THEN result[key] ELSE default

\* the suggestion with the named strategy taken as it comes
llm_suggestion_unchecked(result, adv, order_pct, volatility) ==
    [suggested_strategy |-> Get(result, "suggested_strategy", "TWAP"),
     reasoning |-> Get(result, "reasoning", "AI-recommended strategy"),
     warnings |-> Get(result, "warnings", <<>>),
     market_impact_risk |-> Get(result, "market_impact_risk", "MODERATE"),
     behavioral_notes |-> Get(result, "behavioral_notes", "Based on historical patterns"),
     context |-> [adv |-> adv, order_pct_adv |-> Round2(order_pct),
                  volatility |-> volatility]]

\* strategy.py:123-139, the suggestion built from the parsed completion
llm_suggestion(result, adv, order_pct, volatility) ==
    [suggested_strategy |->
         IF Get(result, "suggested_strategy", "TWAP") \in ALLOWED_STRATEGIES
         THEN Get(result, "suggested_strategy", "TWAP") ELSE "TWAP",
     reasoning |-> Get(result, "reasoning", "AI-recommended strategy"),
     warnings |-> Get(result, "warnings", <<>>),
     market_impact_risk |-> Get(result, "market_impact_risk", "MODERATE"),
     behavioral_notes |-> Get(result, "behavioral_notes", "Based on historical patterns"),
     context |-> [adv |-> adv, order_pct_adv |-> Round2(order_pct),
                  volatility |-> volatility]]

\* config.py:66-67, the version load_prompt reads when none is given
default_version_is_deployed == get_current_version

default_version == procVersion

\* the file load_prompt reads
load_prompt_path(version) ==
    IF PromptFile(version).exists THEN version
    ELSE IF PromptFile("v1").exists THEN "v1"
    ELSE "none"

\* what can go wrong inside one recommendation:
\*   load    reading the template file raises (config.py:74, called at strategy.py:87)
\*   format  prompt_template.format raises on the template (strategy.py:90)
\*   llm     the chat completion call raises (strategy.py:105)
\*   parse   json.loads raises on the completion (strategy.py:121)
\*   shape   the completion is JSON but no object, result.get raises (strategy.py:124)
Faults == {"none", "load", "format", "llm", "parse", "shape"}

\* JSON objects a completion may hold
Completions ==
    {[suggested_strategy |-> "POV", market_impact_risk |-> "LOW"],
     [suggested_strategy |-> "ICEBERG", reasoning |-> "hide the size"],
     [reasoning |-> "no strategy named"]}

NoSuggestion ==
    [suggested_strategy |-> "", reasoning |-> "", warnings |-> <<>>,
     market_impact_risk |-> "", behavioral_notes |-> "",
     context |-> [adv |-> 0, order_pct_adv |-> 0, volatility |-> ""]]

\* a recommendation request: its inputs, the fault met, the process settings
\* and the deployed version when it was served, the template file read, and
\* the outcome ("ok" with a suggestion, or "raise")
NoRec ==
    [op |-> "none", security |-> "", quantity |-> 0, time_in_force |-> "",
     fault |-> "none", mock |-> FALSE, proc |-> "", procExisted |-> FALSE,
     deployed |-> "", fresh |-> FALSE, path |-> "", result |-> "none",
     suggestion |-> NoSuggestion]

Request(op, security, quantity, time_in_force) ==
    [NoRec EXCEPT !.op = op, !.security = security, !.quantity = quantity,
                  !.time_in_force = time_in_force]


\* --------------------------------------------------------- correction store
\* the JSON values of a correction record: strings, integers and objects
\* (an object is the sequence of its members, in insertion order)
JStr(s) == [t |-> "str", s |-> s, n |-> 0, items |-> <<>>]
JInt(n) == [t |-> "int", s |-> "", n |-> n, items |-> <<>>]
JDict(items) == [t |-> "dict", s |-> "", n |-> 0, items |-> items]
Member(k, v) == [k |-> k, v |-> v]

\* d.get(key, default) on an object
Field(d, key, default) ==
    IF d.t = "dict" /\ \E i \in 1..Len(d.items) : d.items[i].k = key
    THEN d.items[CHOOSE i \in 1..Len(d.items) : d.items[i].k = key].v
    ELSE default

\* the order quantities of the corrections, and the integers a correction
\* file may hold
CorrQuantities == {1000, 5000}
Numbers == CorrQuantities \cup {0}

\* json.dump(value, f): the text as tokens (the white space of indent=2,
\* which json.load skips, is left out)
RECURSIVE json_dump(_), json_dump_members(_)
json_dump(v) ==
    IF v.t = "str" THEN <<"\"", v.s, "\"">>
    ELSE IF v.t = "int" THEN <<ToString(v.n)>>
    ELSE <<"{">> \o json_dump_members(v.items) \o <<"}">>

json_dump_members(items) ==
    IF items = <<>> THEN <<>>
    ELSE <<"\"", items[1].k, "\"", ":">> \o json_dump(items[1].v)
         \o (IF Len(items) > 1 THEN <<",">> \o json_dump_members(Tail(items)) ELSE <<>>)

\* json.load: the value that starts at token i and the index after it, or
\* a failure (JSONDecodeError)
JsonFail == [ok |-> FALSE, v |-> JInt(0), next |-> 0]

RECURSIVE json_parse(_, _), json_parse_members(_, _, _)
json_parse(toks, i) ==
    IF i > Len(toks) THEN JsonFail
    ELSE IF toks[i] = "\""
    THEN IF i + 2 <= Len(toks) /\ toks[i + 2] = "\""
         THEN [ok |-> TRUE, v |-> JStr(toks[i + 1]), next |-> i + 3]
         ELSE JsonFail
    ELSE IF toks[i] = "{"
    THEN IF i + 1 <= Len(toks) /\ toks[i + 1] = "}"
         THEN [ok |-> TRUE, v |-> JDict(<<>>), next |-> i + 2]
         ELSE json_parse_members(toks, i + 1, <<>>)
    ELSE IF \E n \in Numbers : ToString(n) = toks[i]
    THEN [ok |-> TRUE, v |-> JInt(CHOOSE n \in Numbers : ToString(n) = toks[i]),
          next |-> i + 1]
    ELSE JsonFail

json_parse_members(toks, i, acc) ==
    IF i + 3 > Len(toks) \/ toks[i] # "\"" \/ toks[i + 2] # "\"" \/ toks[i + 3] # ":"
    THEN JsonFail
    ELSE LET r == json_parse(toks, i + 4)
             members == Append(acc, Member(toks[i + 1], r.v))
         IN IF ~r.ok \/ r.next > Len(toks) THEN JsonFail
            ELSE IF toks[r.next] = "," THEN json_parse_members(toks, r.next + 1, members)
            ELSE IF toks[r.next] = "}"
            THEN [ok |-> TRUE, v |-> JDict(members), next |-> r.next + 1]
            ELSE JsonFail

json_load(text) ==
    LET r == json_parse(text, 1)
    IN IF r.ok /\ r.next = Len(text) + 1 THEN [ok |-> TRUE, v |-> r.v]
       ELSE [ok |-> FALSE, v |-> JInt(0)]

\* datetime.now().isoformat(): one string per day of the model
isoformat(day) == ToString(day)

\* the record with the deployed version in its metadata
correction_record_deployed(interaction_id, timestamp, input_data, ai_suggestion, user_correction) ==
    JDict(<<Member("interaction_id", JStr(interaction_id)),
            Member("timestamp", JStr(timestamp)),
            Member("input", input_data),
            Member("ai_suggestion", ai_suggestion),
            Member("user_correction", user_correction),
            Member("metadata",
                   JDict(<<Member("correction_type", JStr("strategy_suggestion")),
                           Member("version", JStr(get_current_version))>>))>>)

\* strategy.py:213-223, the record capture_correction stores
correction_record(interaction_id, timestamp, input_data, ai_suggestion, user_correction) ==
    JDict(<<Member("interaction_id", JStr(interaction_id)),
            Member("timestamp", JStr(timestamp)),
            Member("input", input_data),
            Member("ai_suggestion", ai_suggestion),
            Member("user_correction", user_correction),
            Member("metadata",
                   JDict(<<Member("correction_type", JStr("strategy_suggestion")),
                           Member("version", JStr("v1"))>>))>>)

\* strategy.py:208-226, CORRECTIONS_DIR / today / f"{interaction_id}.json"
correction_path_per_day(day, interaction_id) == <<day, "correction">>

correction_path(day, interaction_id) == <<day, interaction_id>>

\* the correction files after `text` was written to `path`
WriteCorrection(path, text) ==
    [x \in DOMAIN corrFiles \cup {path} |-> IF x = path THEN text ELSE corrFiles[x]]

\* the names of the directories under CORRECTIONS_DIR: the positive number
\* n is the date of day n; NotADate is a name that is no date
NotADate == 0
\* analyze.py:37, datetime.strptime(daily_dir.name, "%Y-%m-%d") succeeds
strptime_ok(name) == name # NotADate

\* the time of day of datetime.now(): 00:00:00.000000 or any later time
TimesOfDay == {"midnight", "later"}

\* analyze.py:29-41: a daily directory is skipped when its date, at
\* midnight, lies before cutoff_date = now - days, now being `time` on today
dir_in_window_at(day, days, time) ==
    ~(day < today - days \/ (day = today - days /\ time # "midnight"))

\* the same for a load at some time after midnight (a load at midnight
\* sharp reads one day more)
dir_in_window(day, days) == dir_in_window_at(day, days, "later")

\* analyze.py load_corrections(days) called at `time`: the values of the
\* files that parse, in the order the file system lists them (kept as a set)
load_corrections_at(days, time) ==
    {json_load(corrFiles[p]).v :
        p \in {x \in DOMAIN corrFiles :
                  /\ strptime_ok(x[1])
                  /\ dir_in_window_at(x[1], days, time)
                  /\ json_load(corrFiles[x]).ok}}

load_corrections(days) == load_corrections_at(days, "later")

\* what went wrong inside one capture:
\*   open   open(filepath, 'w') raises (permission error)
\*   write  json.dump raises after part of the text reached the file (disk
\*          full, a value that cannot be serialised)
CaptureFaults == {"none", "open", "write"}

\* what an operation of the store did: capture (its path and result) or
\* load (its window, the day and time it ran and the records it returned);
\* count is the number of capture calls so far, deployed the current
\* version when capture was called
NoCapt == [op |-> "none", path |-> <<0, "">>, result |-> "none", days |-> 0,
           day |-> 0, time |-> "later", loaded |-> {}, count |-> 0, deployed |-> ""]

\* ------------------------------------------------------ correction analyzer
\* c.get(outer, {}).get(key) as a string, "" when absent (None and "" are
\* both false in the tests of the analyzer)
GetStr(c, outer, key) == Field(Field(c, outer, JDict(<<>>)), key, JStr("")).s
\* c.get("input", {}).get("quantity"), 0 when absent
GetQuantity(c) == Field(Field(c, "input", JDict(<<>>)), "quantity", JInt(0)).n

\* the elements of seq, each once, in the order of their first occurrence
RECURSIVE Distinct(_)
Distinct(seq) ==
    IF seq = <<>> THEN <<>>
    ELSE LET front == Distinct(SubSeq(seq, 1, Len(seq) - 1))
             x == seq[Len(seq)]
         IN IF x \in Range(front) THEN front ELSE Append(front, x)

\* collections.Counter(seq): the counts, in the order of first occurrence
Counter(seq) ==
    LET keys == Distinct(seq)
    IN [i \in 1..Len(keys) |->
           [key |-> keys[i],
            count |-> Cardinality({j \in 1..Len(seq) : seq[j] = keys[i]})]]

\* sorted(items, key=count, reverse=True): stable, so entries of equal count
\* keep their order
RECURSIVE sorted_by_count(_)
sorted_by_count(items) ==
    IF items = <<>> THEN <<>>
    ELSE LET front == sorted_by_count(SubSeq(items, 1, Len(items) - 1))
             x == items[Len(items)]
             k == Cardinality({i \in 1..Len(front) : front[i].count >= x.count})
         IN SubSeq(front, 1, k) \o <<x>> \o SubSeq(front, k + 1, Len(front))

\* Counter.most_common(): all entries;  Counter.most_common(n): the first n
most_common(counter) == sorted_by_count(counter)
most_common_n(counter, n) ==
    SubSeq(sorted_by_count(counter), 1,
           IF Len(counter) < n THEN Len(counter) ELSE n)

\* [f(x) for x in seq]
RECURSIVE Flatten(_)
Flatten(seqs) == IF seqs = <<>> THEN <<>> ELSE Head(seqs) \o Flatten(Tail(seqs))

\* round((count / total) * 100, 1), in tenths of a percent (for the list
\* lengths of the model no value lies exactly between two tenths)
Percentage(count, total) == (2000 * count + total) \div (2 * total)

NoPattern ==
    [type |-> "", insight |-> "", ai_suggested |-> "", user_chose |-> "",
     security |-> "", preferred_strategy |-> "", frequency |-> 0,
     percentage |-> 0, count |-> 0]

\* analyze.py:69-72
strategy_corrections(corrections) ==
    SelectSeq(corrections,
              LAMBDA c : GetStr(c, "metadata", "correction_type") = "strategy_suggestion")

\* analyze.py:113-125, correction_pairs of the strategy corrections sc
correction_pairs(sc) ==
    LET both == SelectSeq(sc, LAMBDA c : GetStr(c, "ai_suggestion", "strategy") # ""
                                         /\ GetStr(c, "user_correction", "strategy") # "")
        ai_strategies == [i \in 1..Len(both) |-> GetStr(both[i], "ai_suggestion", "strategy")]
        ai_keys == Distinct(ai_strategies)
        user_strats(ai) ==
            LET mine == SelectSeq(both, LAMBDA c : GetStr(c, "ai_suggestion", "strategy") = ai)
            IN [i \in 1..Len(mine) |-> GetStr(mine[i], "user_correction", "strategy")]
        pairs_of(ai) ==
            LET common == most_common(Counter(user_strats(ai)))
            IN [i \in 1..Len(common) |->
                   [ai_suggested |-> ai, user_chose |-> common[i].key,
                    count |-> common[i].count,
                    percentage |-> Percentage(common[i].count, Len(sc))]]
    IN sorted_by_count(Flatten([i \in 1..Len(ai_keys) |-> pairs_of(ai_keys[i])]))

\* analyze.py:141-151, pattern 1
frequent_threshold_two(pairs) ==
    IF pairs # <<>> /\ pairs[1].count >= 2
    THEN <<[NoPattern EXCEPT
               !.type = "frequent_correction",
               !.insight = "AI frequently suggests one strategy but users prefer another",
               !.ai_suggested = pairs[1].ai_suggested,
               !.user_chose = pairs[1].user_chose,
               !.frequency = pairs[1].count,
               !.percentage = pairs[1].percentage]>>
    ELSE <<>>

frequent_pattern(pairs) ==
    IF pairs # <<>> /\ pairs[1].count >= 3
    THEN <<[NoPattern EXCEPT
               !.type = "frequent_correction",
               !.insight = "AI frequently suggests one strategy but users prefer another",
               !.ai_suggested = pairs[1].ai_suggested,
               !.user_chose = pairs[1].user_chose,
               !.frequency = pairs[1].count,
               !.percentage = pairs[1].percentage]>>
    ELSE <<>>

\* analyze.py:128 and 153-177, pattern 2
security_counts(sc) ==
    LET named == SelectSeq(sc, LAMBDA c : GetStr(c, "input", "security") # "")
    IN Counter([i \in 1..Len(named) |-> GetStr(named[i], "input", "security")])

top_securities_all(sc) == most_common(security_counts(sc))

top_securities(sc) == most_common_n(security_counts(sc), 3)

security_pattern(sc, entry) ==
    LET sec_corrections ==
            SelectSeq(sc, LAMBDA c : GetStr(c, "input", "security") = entry.key)
        chosen == SelectSeq(sec_corrections,
                            LAMBDA c : GetStr(c, "user_correction", "strategy") # "")
        user_prefs == [i \in 1..Len(chosen) |-> GetStr(chosen[i], "user_correction", "strategy")]
        most_common_pref == most_common_n(Counter(user_prefs), 1)[1]
    IN IF entry.count >= 2 /\ user_prefs # <<>>
       THEN <<[NoPattern EXCEPT
                  !.type = "security_specific",
                  !.insight = "For one security, users prefer one strategy",
                  !.security = entry.key,
                  !.preferred_strategy = most_common_pref.key,
                  !.frequency = most_common_pref.count,
                  !.count = entry.count]>>
       ELSE <<>>

security_patterns(sc) ==
    LET top == top_securities(sc)
    IN Flatten([i \in 1..Len(top) |-> security_pattern(sc, top[i])])

\* pattern 3 without the test on the number of order sizes
size_patterns_ungated(sc) ==
    LET sized == SelectSeq(sc, LAMBDA c : GetQuantity(c) # 0)
        grouped == SelectSeq(sized, LAMBDA c : GetStr(c, "user_correction", "strategy") # "")
        sizes == Counter([i \in 1..Len(grouped) |->
                             GetStr(grouped[i], "user_correction", "strategy")])
        enough == SelectSeq(sizes, LAMBDA e : e.count >= 2)
    IN [i \in 1..Len(enough) |->
           [NoPattern EXCEPT
               !.type = "order_size_threshold",
               !.insight = "Users choose one strategy for orders of one size",
               !.preferred_strategy = enough[i].key,
               !.count = enough[i].count]]

\* analyze.py:179-199, pattern 3: one pattern per user strategy with at
\* least 2 order sizes, when at least 5 corrections carry a quantity (the
\* average size is left out)
size_patterns(sc) ==
    LET sized == SelectSeq(sc, LAMBDA c : GetQuantity(c) # 0)
        grouped == SelectSeq(sized, LAMBDA c : GetStr(c, "user_correction", "strategy") # "")
        sizes == Counter([i \in 1..Len(grouped) |->
                             GetStr(grouped[i], "user_correction", "strategy")])
        enough == SelectSeq(sizes, LAMBDA e : e.count >= 2)
    IN IF Len(sized) >= 5
       THEN [i \in 1..Len(enough) |->
                [NoPattern EXCEPT
                    !.type = "order_size_threshold",
                    !.insight = "Users choose one strategy for orders of one size",
                    !.preferred_strategy = enough[i].key,
                    !.count = enough[i].count]]
       ELSE <<>>

\* analyze.py analyze_strategy_corrections(corrections); the order-size
\* statistics are left out
NoAnalysis ==
    [total_corrections |-> 0, ai_strategy_counts |-> <<>>, user_strategy_counts |-> <<>>,
     correction_pairs |-> <<>>, patterns |-> <<>>]

analyze_strategy_corrections(corrections) ==
    LET sc == strategy_corrections(corrections)
        both == SelectSeq(sc, LAMBDA c : GetStr(c, "ai_suggestion", "strategy") # ""
                                         /\ GetStr(c, "user_correction", "strategy") # "")
        pairs == correction_pairs(sc)
    IN IF sc = <<>> THEN NoAnalysis
       ELSE [total_corrections |-> Len(sc),
             ai_strategy_counts |->
                 Counter([i \in 1..Len(both) |-> GetStr(both[i], "ai_suggestion", "strategy")]),
             user_strategy_counts |->
                 Counter([i \in 1..Len(both) |-> GetStr(both[i], "user_correction", "strategy")]),
             correction_pairs |-> pairs,
             patterns |-> frequent_pattern(pairs)
                          \o security_patterns(sc) \o size_patterns(sc)]

\* the analyzer's input and result
NoAna == [op |-> "none", corrections |-> <<>>, analysis |-> NoAnalysis]

\* ------------------------------------------------------------ history records
NoBackup == [version |-> "", ts |-> 0]
NoMeta == [version |-> "", based_on |-> "", corrections_analyzed |-> 0,
           patterns_found |-> 0, few_shot_examples |-> 0]

\* what an operation of the pipeline did: its name, its version (the
\* argument of deploy, the version rollback chose, the version train made),
\* its result, and what held when it was called:
\*   before    the current version (deploy, rollback)
\*   existed   whether the version's prompt file existed (deploy)
\*   newest    the version of the backup created last (rollback)
\*   apart     whether no two backups carried the same time stamp (rollback)
\*   replaced  when the operation before it was a successful non-dry-run
\*             deploy that changed the current version, the version that
\*             deploy replaced (rollback)
NoOp == [op |-> "none", ver |-> "", dry |-> FALSE, result |-> "none",
         before |-> "", existed |-> FALSE, newest |-> "", apart |-> FALSE,
         replaced |-> ""]

TrainOp(ver, result) == [NoOp EXCEPT !.op = "train", !.ver = ver, !.result = result]

DeployOp(ver, dry, result) ==
    [NoOp EXCEPT !.op = "deploy", !.ver = ver, !.dry = dry, !.result = result,
                 !.before = get_current_version,
                 !.existed = PromptFile(ver).exists]

RollbackOp(ver, result) ==
    [NoOp EXCEPT !.op = "rollback", !.ver = ver, !.result = result,
                 !.before = get_current_version,
                 !.newest = latestBackup.version,
                 !.apart = \A a, b \in backups : a # b => a.ts # b.ts,
                 !.replaced = IF last.op = "deploy" /\ ~last.dry /\ last.result = "true"
                                 /\ last.ver # last.before
                              THEN last.before ELSE ""]

Op(op, ver, dry, result) ==
    IF op = "rollback" THEN RollbackOp(ver, result) ELSE DeployOp(ver, dry, result)

\* the capture processes: gateway processes that share the corrections
\* directory
Capturers == {1, 2}
IdleCapturer == [pc |-> "idle", path |-> <<0, "">>, text |-> <<>>]
NoWriters == [proc |-> [p \in Capturers |-> IdleCapturer], done |-> {}]

\* mcp_client.py MCPClient: session is 0 for None and 1 for the ClientSession
\* connect creates (a client creates at most one: nothing in connect and
\* call_tool sets it back to None); lock is the coroutine that holds _lock,
\* 0 when it is free; initialized tells whether initialize() has returned.
\* History: calls holds every tool call issued, with the state of its
\* session at that moment.
Callers == {1, 2}
ToolNames == {"smart_suggestion", "get_securities"}
IdleCaller == [pc |-> "idle", op |-> "", tool_name |-> ""]
NoMcp == [session |-> 0, lock |-> 0, initialized |-> FALSE,
          task |-> [p \in Callers |-> IdleCaller], calls |-> {}]

\* the train processes
Trainers == {1, 2}
IdleTrainer == [pc |-> "idle", new_version |-> "", updated_prompt |-> <<>>,
                metadata |-> NoMeta]
NoRace == [serialized |-> TRUE, proc |-> [p \in Trainers |-> IdleTrainer],
           both_scanned |-> FALSE, prompt_overwritten |-> {},
           metadata_overwritten |-> {}]

\* ---------------------------------------------------------------- operations
\* the store as shipped, holding the base policy v1 only, and a recommender
\* started without STRATEGY_PROMPT_VERSION and without LLM credentials
InitStore ==
    /\ prompts = [x \in {"v1"} |-> V1Text]
    /\ metaFiles = [v \in {} |-> NoMeta]
    /\ backups = {}
    /\ deployLogs = [v \in {} |-> NoMeta]
    /\ now = 1
    /\ procVersion = "v1"
    /\ useMock = TRUE
    /\ restarted = FALSE
    /\ last = NoOp
    /\ lastDeployed = "v1"
    /\ latestBackup = NoBackup
    /\ trainCount = 0
    /\ corrFiles = <<>>
    /\ today = 1
    /\ capt = NoCapt
    /\ captured = <<>>
    /\ writers = NoWriters
    /\ mcp = NoMcp

Init ==
    /\ InitStore
    /\ race = NoRace
    /\ rec = NoRec
    /\ ana = NoAna
    /\ aug = NoAug

\* a second of wall-clock time passes
Tick ==
    /\ now < MaxTime
    /\ now' = now + 1
    /\ UNCHANGED <<storeVars, procVars, recVars, histVars, corrVars, auxVars>>

\* train.py:142 and train.py:151, the two shortfall tests passed
enough_corrections_loaded(loaded, strategy_total) ==
    ~(loaded < MinCorrections)

enough_corrections(loaded, strategy_total) ==
    ~(loaded < MinCorrections) /\ ~(strategy_total < MinCorrections)

\* train.py train_and_generate_new_prompt(min_corrections = MinCorrections),
\* when load_corrections returns `loaded` records of which `strategy_total`
\* are strategy corrections and the analysis holds `patterns`.  Of the
\* metadata, created_at, insights and analysis_summary are written and never
\* read back; the model keeps the other fields.
Train(loaded, strategy_total, patterns) ==
    /\ IF ~enough_corrections(loaded, strategy_total)
       THEN /\ last' = TrainOp("", "false")
            /\ UNCHANGED <<storeVars, trainCount>>
       ELSE LET few_shot_examples == generate_few_shot_examples(patterns)
                insights == [i \in 1..Len(patterns) |-> patterns[i].insight]
                current_version == "v1"
                current_prompt == load_prompt(current_version)
                new_version == VName[new_version_num]
                updated_prompt ==
                    create_updated_prompt(current_prompt, few_shot_examples, insights)
                metadata == [version |-> new_version,
                             based_on |-> current_version,
                             corrections_analyzed |-> strategy_total,
                             patterns_found |-> Len(patterns),
                             few_shot_examples |-> Len(few_shot_examples)]
            IN /\ new_version_num \in 1..MaxVersion
               /\ prompts' = WritePrompt(new_version, updated_prompt)
               /\ metaFiles' =
                      [v \in DOMAIN metaFiles \cup {new_version} |->
                          IF v = new_version THEN metadata ELSE metaFiles[v]]
               /\ trainCount' = trainCount + 1
               /\ last' = TrainOp(new_version, "true")
               /\ UNCHANGED <<backups, deployLogs>>
    /\ UNCHANGED <<now, procVars, recVars, lastDeployed, latestBackup, corrVars, auxVars>>

\* train.py train_and_generate_new_prompt run by process p next to other
\* train processes, in its steps on the store: it loads the corrections and
\* the base prompt and scans the version files (train.py:139-181), writes
\* the prompt file (train.py:187-188), writes the metadata file
\* (train.py:206-208).  race.serialized tells whether the runs are
\* serialized from outside: a run then starts only while no other is under
\* way.
TrainScan(p, loaded, strategy_total, patterns) ==
    /\ race.proc[p].pc = "idle"
    /\ race.serialized => \A q \in Trainers : race.proc[q].pc = "idle"
    /\ IF ~enough_corrections(loaded, strategy_total)
       THEN /\ last' = TrainOp("", "false")
            /\ UNCHANGED race
       ELSE LET few_shot_examples == generate_few_shot_examples(patterns)
                insights == [i \in 1..Len(patterns) |-> patterns[i].insight]
                current_version == "v1"
                current_prompt == load_prompt(current_version)
                new_version == VName[new_version_num]
                updated_prompt ==
                    create_updated_prompt(current_prompt, few_shot_examples, insights)
                metadata == [version |-> new_version,
                             based_on |-> current_version,
                             corrections_analyzed |-> strategy_total,
                             patterns_found |-> Len(patterns),
                             few_shot_examples |-> Len(few_shot_examples)]
            IN /\ new_version_num \in 1..MaxVersion
               /\ race' = [race EXCEPT
                      !.proc[p] = [pc |-> "scanned", new_version |-> new_version,
                                   updated_prompt |-> updated_prompt,
                                   metadata |-> metadata],
                      !.both_scanned =
                          @ \/ \E q \in Trainers \ {p} : race.proc[q].pc = "scanned"]
               /\ UNCHANGED last
    /\ UNCHANGED <<storeVars, now, procVars, recVars, lastDeployed, latestBackup,
                   trainCount, corrVars, aug, writers, mcp>>

TrainWritePrompt(p) ==
    LET me == race.proc[p]
    IN /\ me.pc = "scanned"
       /\ prompts' = WritePrompt(me.new_version, me.updated_prompt)
       /\ race' = [race EXCEPT
              !.proc[p].pc = "prompt",
              !.prompt_overwritten =
                  IF PromptFile(me.new_version).exists THEN @ \cup {me.new_version} ELSE @]
       /\ UNCHANGED <<metaFiles, backups, deployLogs, now, procVars, recVars, histVars,
                      corrVars, aug, writers, mcp>>

TrainWriteMetadata(p) ==
    LET me == race.proc[p]
    IN /\ me.pc = "prompt"
       /\ metaFiles' =
              [v \in DOMAIN metaFiles \cup {me.new_version} |->
                  IF v = me.new_version THEN me.metadata ELSE metaFiles[v]]
       /\ race' = [race EXCEPT
              !.proc[p] = IdleTrainer,
              !.metadata_overwritten =
                  IF me.new_version \in DOMAIN metaFiles THEN @ \cup {me.new_version} ELSE @]
       /\ trainCount' = trainCount + 1
       /\ last' = TrainOp(me.new_version, "true")
       /\ UNCHANGED <<prompts, backups, deployLogs, now, procVars, recVars, lastDeployed,
                      latestBackup, corrVars, aug, writers, mcp>>

\* deploy.py:111, the test that guards the backup
needs_backup_always(current_version, version) == TRUE

needs_backup(current_version, version) == current_version # version

\* deploy.py deploy_version(version, dry_run), called as operation `op`.
\* Of the deployment log, deployed_at and previous_version are written and
\* never read back; the model keeps which log files exist and their
\* version and metadata.
deploy_version(version, dry_run, op) ==
    LET version_file == PromptFile(version)
        metadata == IF version \in DOMAIN metaFiles THEN metaFiles[version] ELSE NoMeta
        current_version == get_current_version
        backup_file == [version |-> current_version, ts |-> now]
        backed_up == needs_backup(current_version, version)
                     /\ PromptFile(current_version).exists
        deploy_log == [version |-> version, metadata |-> metadata]
    IN
    /\ IF ~version_file_exists(version)
       THEN /\ last' = Op(op, version, dry_run, "false")
            /\ UNCHANGED <<storeVars, lastDeployed, latestBackup, restarted>>
       ELSE IF dry_run
       THEN /\ last' = Op(op, version, dry_run, "true")
            /\ UNCHANGED <<storeVars, lastDeployed, latestBackup, restarted>>
       ELSE /\ backups' = IF backed_up THEN backups \cup {backup_file} ELSE backups
            /\ latestBackup' = IF backed_up THEN backup_file ELSE latestBackup
            /\ IF version = current_marker
               THEN \* shutil.copy2(version_file, current_marker): SameFileError
                    /\ last' = Op(op, version, dry_run, "raise")
                    /\ UNCHANGED <<prompts, deployLogs, lastDeployed, restarted>>
               ELSE /\ prompts' =
                           WritePrompt(current_marker,
                                       versioned_content(version, version_file.text))
                    /\ deployLogs' =
                           [v \in DOMAIN deployLogs \cup {version} |->
                               IF v = version THEN deploy_log ELSE deployLogs[v]]
                    /\ lastDeployed' = version
                    /\ restarted' = FALSE
                    /\ last' = Op(op, version, dry_run, "true")
            /\ UNCHANGED metaFiles
    /\ UNCHANGED <<now, procVars, rec, trainCount, corrVars, auxVars>>

\* python deploy.py --version <version> [--dry-run]
Deploy(version, dry_run) == deploy_version(version, dry_run, "deploy")

\* deploy.py rollback_version
Rollback ==
    IF backups = {}
    THEN /\ last' = RollbackOp("", "false")
         /\ UNCHANGED <<storeVars, now, procVars, recVars, lastDeployed, latestBackup,
                        trainCount, corrVars, auxVars>>
    ELSE deploy_version(latest_backup.version, FALSE, "rollback")

\* the recommender process is started with STRATEGY_PROMPT_VERSION = version,
\* with or without LLM credentials (config.py:21-30)
Restart(version, mock) ==
    /\ procVersion' = version
    /\ useMock' = mock
    /\ restarted' = TRUE
    /\ UNCHANGED <<storeVars, now, rec, histVars, corrVars, auxVars>>

\* strategy.py suggest_strategy_with_llm(security, quantity, time_in_force),
\* meeting `fault` and, when the LLM answers, the completion `completion`.
\* The trader history summary is interpolated into the prompt and decides
\* nothing; it is left out.
suggest_strategy_with_llm(security, quantity, time_in_force, fault, completion) ==
    LET market_ctx == get_market_context(security)
        adv == market_ctx.adv
        volatility == market_ctx.recent_volatility
        order_pct == OrderPct(quantity, adv)
        request ==
            [Request("recommend", security, quantity, time_in_force) EXCEPT
                !.fault = fault, !.mock = useMock, !.proc = procVersion,
                !.procExisted = PromptFile(procVersion).exists,
                !.deployed = lastDeployed,
                !.fresh = PromptFile("current").exists /\ ~restarted]
        fallback == _mock_strategy_suggestion(security, quantity, order_pct, time_in_force)
    IN
    /\ rec' =
          IF fault = "load"
          THEN [request EXCEPT !.result = "raise"]
          ELSE IF fault = "format"
          THEN [request EXCEPT !.result = "raise",
                               !.path = load_prompt_path(default_version)]
          ELSE IF useMock \/ fault \in {"llm", "parse", "shape"}
          THEN [request EXCEPT !.result = "ok", !.suggestion = fallback,
                               !.path = load_prompt_path(default_version)]
          ELSE [request EXCEPT !.result = "ok",
                               !.suggestion =
                                   llm_suggestion(completion, adv, order_pct, volatility),
                               !.path = load_prompt_path(default_version)]
    /\ UNCHANGED <<storeVars, now, procVars, restarted, histVars, corrVars, auxVars>>

\* the rule fallback applied to a drawn input
ApplyRule ==
    /\ rec.op = "input"
    /\ rec' =
          [rec EXCEPT
              !.op = "rule",
              !.result = "ok",
              !.suggestion =
                  _mock_strategy_suggestion(
                      rec.security, rec.quantity,
                      OrderPct(rec.quantity, get_market_context(rec.security).adv),
                      rec.time_in_force)]
    /\ UNCHANGED <<storeVars, now, procVars, restarted, histVars, corrVars, auxVars>>


\* a calendar day passes
NextDay ==
    /\ today < MaxDay
    /\ today' = today + 1
    /\ UNCHANGED <<storeVars, now, procVars, recVars, histVars, corrFiles, capt,
                   captured, ana, auxVars>>

\* strategy.py capture_correction(interaction_id, input_data, ai_suggestion,
\* user_correction), meeting `fault`; a failing write leaves the first `cut`
\* tokens of the text in the file
capture_correction(interaction_id, input_data, ai_suggestion, user_correction, fault, cut) ==
    LET correction ==
            correction_record(interaction_id, isoformat(today), input_data,
                              ai_suggestion, user_correction)
        filepath == correction_path(today, interaction_id)
        text == json_dump(correction)
        \* history: state is "once" after a single call for <<day, id>> that
        \* succeeded, "failed" after a single call that failed, "again" after
        \* more than one call
        key == <<today, interaction_id>>
        asked == IF key \in DOMAIN captured
                 THEN [state |-> "again", record |-> correction]
                 ELSE [state |-> IF fault = "none" THEN "once" ELSE "failed",
                       record |-> correction]
    IN
    /\ capt.count < MaxCaptures
    /\ corrFiles' =
          IF fault = "open" THEN corrFiles
          ELSE IF fault = "write" THEN WriteCorrection(filepath, SubSeq(text, 1, cut))
          ELSE WriteCorrection(filepath, text)
    /\ capt' = [NoCapt EXCEPT !.op = "capture", !.path = filepath, !.day = today,
                              !.count = capt.count + 1,
                              !.deployed = get_current_version,
                              !.result = IF fault = "none" THEN "saved" ELSE "raise"]
    /\ captured' =
          [x \in DOMAIN captured \cup {key} |-> IF x = key THEN asked ELSE captured[x]]
    /\ UNCHANGED <<storeVars, now, procVars, recVars, histVars, today, ana, auxVars>>

\* the content of a file that held `old` after `text` was written at its
\* start
WriteAtStart(old, text) == text \o SubSeq(old, Len(text) + 1, Len(old))

\* strategy.py capture_correction run by process p next to other capture
\* processes, in its steps on the file system: open(filepath, 'w') creates
\* or truncates the file (strategy.py:227); json.dump fills the buffer of
\* the file object, and leaving the with-block writes the buffer at the
\* start of the file (strategy.py:228)
CaptureOpen(p, interaction_id, input_data, ai_suggestion, user_correction) ==
    LET correction ==
            correction_record(interaction_id, isoformat(today), input_data,
                              ai_suggestion, user_correction)
        filepath == correction_path(today, interaction_id)
    IN /\ writers.proc[p].pc = "idle"
       /\ capt.count < MaxCaptures
       /\ corrFiles' = WriteCorrection(filepath, <<>>)
       /\ writers' = [writers EXCEPT
              !.proc[p] = [pc |-> "open", path |-> filepath, text |-> json_dump(correction)]]
       /\ capt' = [NoCapt EXCEPT !.op = "capture", !.path = filepath, !.day = today,
                                 !.count = capt.count + 1, !.result = "open"]
       /\ UNCHANGED <<storeVars, now, procVars, recVars, histVars, today, captured, ana,
                      aug, race, mcp>>

CaptureWrite(p) ==
    LET me == writers.proc[p]
    IN /\ me.pc = "open"
       /\ corrFiles' = WriteCorrection(me.path, WriteAtStart(corrFiles[me.path], me.text))
       /\ writers' = [writers EXCEPT
              !.proc[p] = IdleCapturer,
              !.done = @ \cup {[path |-> me.path, text |-> me.text]}]
       /\ capt' = [capt EXCEPT !.result = "saved"]
       /\ UNCHANGED <<storeVars, now, procVars, recVars, histVars, today, captured, ana,
                      aug, race, mcp>>

\* mcp_client.py:65, self.session.call_tool(tool_name, arguments) issued on
\* the session the client holds
session_call_tool(m, tool_name) ==
    [m EXCEPT !.calls = @ \cup {[session |-> m.session, tool_name |-> tool_name,
                                 initialized |-> m.initialized]}]

\* the step of coroutine p after connect has returned: call_tool goes on to
\* the tool call (mcp_client.py:64-65), a plain connect is over
connect_returned(m, p) ==
    LET done == [m EXCEPT !.task[p] = IdleCaller]
    IN IF m.task[p].op = "call_tool"
       THEN session_call_tool(done, m.task[p].tool_name)
       ELSE done

\* mcp_client.py:22-24, connect once it holds _lock: it returns when a
\* session is set and goes on to stdio_client otherwise
connect_locked(m, p) ==
    IF m.session # 0 THEN connect_returned(m, p)
    ELSE [m EXCEPT !.lock = p, !.task[p].pc = "stdio_client"]

\* mcp_client.py:20-22, coroutine p enters connect: it takes _lock when it
\* is free and waits for it otherwise
connect_entered(m, p) ==
    IF m.lock = 0 THEN connect_locked(m, p)
    ELSE [m EXCEPT !.task[p].pc = "lock"]

\* mcp_client.py:50-65, a request handler calls call_tool
call_tool(p, tool_name) ==
    LET started == [mcp EXCEPT !.task[p] = [pc |-> "idle", op |-> "call_tool",
                                            tool_name |-> tool_name]]
    IN /\ mcp.task[p].pc = "idle"
       /\ mcp' = IF mcp.session = 0 THEN connect_entered(started, p)
                 ELSE session_call_tool(mcp, tool_name)
       /\ UNCHANGED <<storeVars, now, procVars, recVars, histVars, corrVars, aug, race,
                      writers>>

\* mcp_client.py:20-41, connect called by itself
connect(p) ==
    LET started == [mcp EXCEPT !.task[p] = [pc |-> "idle", op |-> "connect",
                                            tool_name |-> ""]]
    IN /\ mcp.task[p].pc = "idle"
       /\ mcp' = connect_entered(started, p)
       /\ UNCHANGED <<storeVars, now, procVars, recVars, histVars, corrVars, aug, race,
                      writers>>

\* mcp_client.py:22, _lock is released and a waiting coroutine gets it
connect_lock_acquired(p) ==
    /\ mcp.task[p].pc = "lock"
    /\ mcp.lock = 0
    /\ mcp' = connect_locked(mcp, p)
    /\ UNCHANGED <<storeVars, now, procVars, recVars, histVars, corrVars, aug, race,
                   writers>>

\* mcp_client.py:34-37, await stdio_client(...) ends: with the streams, and
\* then self.session is set to a new ClientSession, or with an exception
\* that leaves connect and releases _lock
connect_stdio_client(p, ok) ==
    /\ mcp.task[p].pc = "stdio_client"
    /\ mcp' = IF ok
              THEN [mcp EXCEPT !.session = 1, !.task[p].pc = "initialize"]
              ELSE [mcp EXCEPT !.lock = 0, !.task[p] = IdleCaller]
    /\ UNCHANGED <<storeVars, now, procVars, recVars, histVars, corrVars, aug, race,
                   writers>>

\* mcp_client.py:38-40, await self.session.initialize() ends: normally, and
\* connect returns, or with an exception that leaves connect; _lock is
\* released either way and self.session stays set
connect_initialize(p, ok) ==
    /\ mcp.task[p].pc = "initialize"
    /\ mcp' = IF ok
              THEN connect_returned([mcp EXCEPT !.initialized = TRUE, !.lock = 0], p)
              ELSE [mcp EXCEPT !.lock = 0, !.task[p] = IdleCaller]
    /\ UNCHANGED <<storeVars, now, procVars, recVars, histVars, corrVars, aug, race,
                   writers>>

\* analyze.py load_corrections(days)
LoadCorrections(days) ==
    /\ capt' = [NoCapt EXCEPT !.op = "load", !.days = days, !.day = today,
                              !.count = capt.count,
                              !.result = "loaded",
                              !.loaded = load_corrections(days)]
    /\ UNCHANGED <<storeVars, now, procVars, recVars, histVars, corrFiles, today,
                   captured, ana, auxVars>>

\* create_updated_prompt applied to a drawn base prompt, example list and
\* insight list
Augment ==
    /\ aug.op = "input"
    /\ aug' = [aug EXCEPT !.op = "augment",
                          !.updated = create_updated_prompt(aug.base_prompt,
                                                            aug.few_shot_examples,
                                                            aug.insights)]
    /\ UNCHANGED <<storeVars, now, procVars, recVars, histVars, corrVars, race, writers, mcp>>

\* analyze.py load_corrections(days), called at `time` of today
LoadAt(days, time) ==
    /\ capt' = [NoCapt EXCEPT !.op = "load", !.days = days, !.day = today,
                              !.time = time, !.count = capt.count,
                              !.result = "loaded",
                              !.loaded = load_corrections_at(days, time)]
    /\ UNCHANGED <<storeVars, now, procVars, recVars, histVars, corrFiles, today,
                   captured, ana, auxVars>>

\* somebody other than capture puts the file `name`.json with `text` into
\* the directory `dir` of CORRECTIONS_DIR
PutFile(dir, name, text) ==
    /\ dir \in {NotADate, today}
    /\ <<dir, name>> \notin DOMAIN corrFiles
    /\ corrFiles' = WriteCorrection(<<dir, name>>, text)
    /\ capt' = [NoCapt EXCEPT !.op = "put", !.path = <<dir, name>>, !.day = today,
                              !.count = capt.count]
    /\ UNCHANGED <<storeVars, now, procVars, recVars, histVars, today, captured, ana,
                   auxVars>>

\* the analyzer applied to a drawn list of corrections
Analyze ==
    /\ ana.op = "input"
    /\ ana' = [ana EXCEPT !.op = "analyze",
                          !.analysis = analyze_strategy_corrections(ana.corrections)]
    /\ UNCHANGED <<storeVars, now, procVars, recVars, histVars, corrFiles, today, capt,
                   captured, auxVars>>

\* ------------------------------------------------------------ specifications

\* the versions an operator may name on the command line
VersionArgs == {VName[n] : n \in 1..MaxVersion} \cup {"current"}

\* the pipeline, its operations run one at a time
Next ==
    \/ \E counts \in CorrectionCounts, patterns \in PatternLists :
          Train(counts[1], counts[2], patterns)
    \/ \E version \in VersionArgs, dry_run \in BOOLEAN : Deploy(version, dry_run)
    \/ Rollback

Spec == Init /\ [][Next]_vars

\* the pipeline while the wall clock advances
NextTimed ==
    \/ Next
    \/ Tick

SpecTimed == Init /\ [][NextTimed]_vars

\* the recommender serving while versions are trained and deployed, and
\* restarted with STRATEGY_PROMPT_VERSION unset, set to the version deployed
\* last, or set to "current"
NextServe ==
    \/ Train(MinCorrections, MinCorrections, <<PatFrequent, PatSecurity>>)
    \/ \E version \in VersionArgs : Deploy(version, FALSE)
    \/ \E version \in {"v1", lastDeployed, "current"} : Restart(version, TRUE)
    \/ suggest_strategy_with_llm("AAPL", 5000, "DAY", "none", [reasoning |-> ""])

SpecServe == Init /\ [][NextServe]_vars

\* the recommender alone, over its inputs and faults
Securities == DOMAIN MARKET_DATA \cup {"ZZZZ"}
TimeInForce == {"DAY", "GTC", "GTD", "FOK"}

\* the quantities within Near shares of q
Around(q) == {n \in (q - Near)..(q + Near) : n > 0}

\* order sizes of everyday use: a small, a large and a very large order
ScenarioQuantities == {5000, 5000000, 9000000}

\* the quantities tried for a security: around 1, 5, 10 and 15 percent of its
\* adv, and the everyday sizes
Quantities(security) ==
    UNION {Around((b * get_market_context(security).adv) \div 100) : b \in {1, 5, 10, 15}}
        \cup ScenarioQuantities

NextRecommend ==
    \/ \E mock \in BOOLEAN : Restart("v1", mock)
    \/ \E security \in {"AAPL", "ZZZZ"}, time_in_force \in {"DAY", "FOK"},
          fault \in Faults, completion \in Completions :
          \E quantity \in {(b * get_market_context(security).adv) \div 100 : b \in {1, 10}} :
             suggest_strategy_with_llm(security, quantity, time_in_force, fault, completion)

SpecRecommend == Init /\ [][NextRecommend]_vars


\* the correction store: captures from the gateway, loads, days passing
InteractionIds == {"id1", "id2"}
InputData ==
    {JDict(<<Member("security", JStr("AAPL")), Member("quantity", JInt(1000)),
             Member("timeInForce", JStr("DAY"))>>),
     JDict(<<Member("security", JStr("MSFT")), Member("quantity", JInt(5000)),
             Member("timeInForce", JStr("GTC"))>>)}
AiSuggestion == JDict(<<Member("strategy", JStr("TWAP")), Member("reasoning", JStr("Medium order"))>>)
UserCorrection == JDict(<<Member("strategy", JStr("VWAP")), Member("reason", JStr("Client prefers VWAP"))>>)
\* how many tokens of the text a failing write leaves in the file
CutPoints == {0, 30}

NextCapture ==
    \/ \E interaction_id \in InteractionIds, input_data \in InputData,
          fault \in CaptureFaults, cut \in CutPoints :
          capture_correction(interaction_id, input_data, AiSuggestion, UserCorrection,
                             fault, cut)
    \/ \E days \in {1, MaxDay} : LoadCorrections(days)
    \/ NextDay

SpecCapture == Init /\ [][NextCapture]_vars

\* captures from the gateway while operators train and deploy
NextCaptureDeployed ==
    \/ \E patterns \in PatternLists : Train(MinCorrections, MinCorrections, patterns)
    \/ \E version \in VersionArgs : Deploy(version, FALSE)
    \/ \E interaction_id \in InteractionIds :
          capture_correction(interaction_id,
                             JDict(<<Member("security", JStr("AAPL")),
                                     Member("quantity", JInt(1000))>>),
                             AiSuggestion, UserCorrection, "none", 0)

SpecCaptureDeployed == Init /\ [][NextCaptureDeployed]_vars

\* coroutines of the gateway that use one MCPClient; the event loop runs
\* one of them up to its next await
NextMcp ==
    \/ \E p \in Callers, tool_name \in ToolNames : call_tool(p, tool_name)
    \/ \E p \in Callers : connect(p)
    \/ \E p \in Callers : connect_lock_acquired(p)
    \/ \E p \in Callers, ok \in BOOLEAN : connect_stdio_client(p, ok)
    \/ \E p \in Callers, ok \in BOOLEAN : connect_initialize(p, ok)

SpecMcp == Init /\ [][NextMcp]_vars

\* the correction store with files that capture did not write: JSON texts
\* that are no correction record, and a record in a directory whose name is
\* no date; loads at midnight and later
ForeignRecord ==
    correction_record("id9", isoformat(1),
                      JDict(<<Member("security", JStr("TSLA")), Member("quantity", JInt(5000))>>),
                      AiSuggestion, UserCorrection)
ForeignTexts ==
    {json_dump(ForeignRecord), json_dump(JInt(1000)), json_dump(JDict(<<>>))}

NextLoad ==
    \/ \E interaction_id \in InteractionIds, fault \in {"none", "write"} :
          capture_correction(interaction_id,
                             JDict(<<Member("security", JStr("AAPL")),
                                     Member("quantity", JInt(1000)),
                                     Member("timeInForce", JStr("DAY"))>>),
                             AiSuggestion, UserCorrection, fault, 30)
    \/ \E dir \in 0..MaxDay, text \in ForeignTexts : PutFile(dir, "notes", text)
    \/ \E days \in 1..MaxDay, time \in TimesOfDay : LoadAt(days, time)
    \/ NextDay

SpecLoad == Init /\ [][NextLoad]_vars

\* captures by two gateway processes, their steps interleaved
UserCorrections == {UserCorrection, JDict(<<Member("strategy", JStr("POV"))>>)}

NextCaptureRace ==
    \/ \E p \in Capturers, interaction_id \in InteractionIds, input_data \in InputData,
          user_correction \in UserCorrections :
          CaptureOpen(p, interaction_id, input_data, AiSuggestion, user_correction)
    \/ \E p \in Capturers : CaptureWrite(p)

SpecCaptureRace == Init /\ [][NextCaptureRace]_vars

\* the analyzer as a function of the list of corrections it is given
\* a correction as capture stores it; an empty strategy or security and a
\* zero quantity stand for a payload without that member
Correction(correction_type, ai, user, security, quantity) ==
    JDict(<<Member("interaction_id", JStr("id")),
            Member("timestamp", JStr("1")),
            Member("input",
                   JDict((IF security # "" THEN <<Member("security", JStr(security))>> ELSE <<>>)
                         \o (IF quantity # 0 THEN <<Member("quantity", JInt(quantity))>> ELSE <<>>))),
            Member("ai_suggestion",
                   JDict(IF ai # "" THEN <<Member("strategy", JStr(ai))>> ELSE <<>>)),
            Member("user_correction",
                   JDict(IF user # "" THEN <<Member("strategy", JStr(user))>> ELSE <<>>)),
            Member("metadata",
                   JDict(<<Member("correction_type", JStr(correction_type)),
                           Member("version", JStr("v1"))>>))>>)

CorrectionKinds ==
    {Correction("strategy_suggestion", "TWAP", "VWAP", "AAPL", 1000),
     Correction("strategy_suggestion", "TWAP", "POV", "AAPL", 1000),
     Correction("strategy_suggestion", "VWAP", "TWAP", "MSFT", 5000),
     Correction("strategy_suggestion", "TWAP", "", "AAPL", 0),
     Correction("strategy_suggestion", "TWAP", "VWAP", "", 1000),
     Correction("order_parse", "TWAP", "VWAP", "AAPL", 1000)}

ShortLists == UNION {[1..n -> CorrectionKinds] : n \in 0..MaxList}

\* lists that hold counts[s] corrections for each security s, security by
\* security in the order `order`
CorrectedSecurities == {"AAPL", "MSFT", "GOOGL", "TSLA"}
SecurityOrders ==
    {o \in [1..Cardinality(CorrectedSecurities) -> CorrectedSecurities] :
        \A i, j \in DOMAIN o : i # j => o[i] # o[j]}
BySecurity(counts, order) ==
    Flatten([i \in DOMAIN order |->
                [j \in 1..counts[order[i]] |->
                    Correction("strategy_suggestion", "TWAP", "VWAP", order[i], 1000)]])
SecurityLists ==
    {BySecurity(counts, order) :
        counts \in [CorrectedSecurities -> 0..MaxPerSecurity], order \in SecurityOrders}

\* lists long enough for the order-size pattern (analyze.py:180 asks for 5
\* quantities): corrections with and without a user strategy, with and
\* without a quantity, and of another correction type
MinSizes == 5
SizedKinds ==
    {Correction("strategy_suggestion", "TWAP", "VWAP", "AAPL", 1000),
     Correction("strategy_suggestion", "TWAP", "POV", "AAPL", 5000),
     Correction("strategy_suggestion", "TWAP", "", "AAPL", 1000),
     Correction("strategy_suggestion", "TWAP", "VWAP", "AAPL", 0),
     Correction("order_parse", "TWAP", "VWAP", "AAPL", 1000)}
SizedLists == UNION {[1..n -> SizedKinds] : n \in MinSizes..(MaxList + 1)}

InitAnalyze ==
    /\ InitStore
    /\ race = NoRace
    /\ rec = NoRec
    /\ aug = NoAug
    /\ \E corrections \in ShortLists \cup SecurityLists \cup SizedLists :
          ana = [NoAna EXCEPT !.op = "input", !.corrections = corrections]

SpecAnalyze == InitAnalyze /\ [][Analyze]_vars

\* train processes started by two operators, with and without serialization
InitTrainRace ==
    /\ InitStore
    /\ rec = NoRec
    /\ ana = NoAna
    /\ aug = NoAug
    /\ \E serialized \in BOOLEAN : race = [NoRace EXCEPT !.serialized = serialized]

NextTrainRace ==
    \/ \E p \in Trainers, counts \in CorrectionCounts, patterns \in PatternLists :
          TrainScan(p, counts[1], counts[2], patterns)
    \/ \E p \in Trainers : TrainWritePrompt(p)
    \/ \E p \in Trainers : TrainWriteMetadata(p)

SpecTrainRace == InitTrainRace /\ [][NextTrainRace]_vars

\* prompt augmentation as a function of its inputs: base prompts with the
\* anchor once, twice, first, and without it; up to MaxExamples examples and
\* insights
BasePrompts ==
    {V1Text,
     <<"You are an execution strategist.", NL, "Answer in JSON.">>,
     <<insert_marker, " first.", NL, insert_marker, " again.">>,
     <<insert_marker>>,
     <<>>}
Examples == {ExampleOf(PatFrequent), ExampleOf(PatSecurity), ExampleOf([type |-> "order_size_threshold"])}
Insights == {PatFrequent.insight, PatSecurity.insight}
ListsOf(S, n) == UNION {[1..k -> S] : k \in 0..n}

InitAugment ==
    /\ InitStore
    /\ race = NoRace
    /\ rec = NoRec
    /\ ana = NoAna
    /\ \E base_prompt \in BasePrompts, few_shot_examples \in ListsOf(Examples, MaxExamples),
          insights \in ListsOf(Insights, MaxExamples) :
          aug = [NoAug EXCEPT !.op = "input", !.base_prompt = base_prompt,
                              !.few_shot_examples = few_shot_examples,
                              !.insights = insights]

SpecAugment == InitAugment /\ [][Augment]_vars

\* the rule fallback as a function of its inputs
InitRule ==
    /\ InitStore
    /\ race = NoRace
    /\ ana = NoAna
    /\ aug = NoAug
    /\ \E security \in Securities, time_in_force \in TimeInForce :
          \E quantity \in Quantities(security) :
             rec = Request("input", security, quantity, time_in_force)

SpecRule == InitRule /\ [][ApplyRule]_vars

\* ------------------------------------------------------------------- claims

\* C1: a successful non-dry-run deploy(p) with p different from the current
\* version q, followed immediately by rollback(), leaves currentVersion()
\* equal to q.
C1_DeployRollbackRoundTrip ==
    (last.op = "rollback" /\ last.replaced # "") => get_current_version = last.replaced

\* C2: rollback() re-deploys the version named by the backup that was created
\* last in time, when the backups were made at different times.
C2_RollbackPicksNewestBackup ==
    (last.op = "rollback" /\ last.result = "true" /\ last.apart) => last.ver = last.newest

\* C4: each successful train creates version max(existing)+1: from a store
\* holding only v1 the k-th successful train creates v(k+1), whatever deploys
\* and rollbacks ran in between, and the versions present are v1..v(k+1).
C4_TrainVersionNumbers ==
    /\ {x \in DOMAIN prompts : IsVName(x)} = {VName[n] : n \in 1..(trainCount + 1)}
    /\ (last.op = "train" /\ last.result = "true") => last.ver = VName[trainCount + 1]

C4_Witness ==
    /\ last.op = "train" /\ last.result = "true" /\ last.ver = "v3"
    /\ trainCount = 2
    /\ lastDeployed = "v2"
    /\ backups # {}

\* C5: policy version files are write-once: no step of train, deploy or
\* rollback changes or removes an existing strategy_v<N>.txt, and deploy and
\* rollback leave the version files and their metadata as they are.
C5_VersionFilesWriteOnce ==
    [][/\ \A v \in DOMAIN prompts :
             IsVName(v) => (v \in DOMAIN prompts' /\ prompts'[v] = prompts[v])
       /\ (last' # last /\ last'.op \in {"deploy", "rollback"}) =>
             /\ {x \in DOMAIN prompts' : IsVName(x)} = {x \in DOMAIN prompts : IsVName(x)}
             /\ metaFiles' = metaFiles]_vars

C5_Witness ==
    /\ last.op = "rollback" /\ last.result = "true"
    /\ trainCount = 2
    /\ prompts["v2"] # prompts["v3"]

\* C6: currentVersion() always names a version whose prompt file
\* strategy_<version>.txt exists.
C6_CurrentVersionExists ==
    /\ IsVName(get_current_version)
    /\ PromptFile(get_current_version).exists

C6_Witness ==
    /\ last.op = "deploy" /\ last.result = "false"
    /\ get_current_version = "v2"
    /\ backups # {}

\* C7: currentVersion() is the version of the latest successful non-dry-run
\* deploy (a rollback's deploy included), read back from the header of the
\* current file; it is v1 when there is no current file, and v1 for a file
\* without a version header.
C7_CurrentIsLatestDeploy ==
    /\ get_current_version = lastDeployed
    /\ ~PromptFile("current").exists => get_current_version = "v1"
    /\ \A v \in DOMAIN prompts :
          IsVName(v) => get_current_version_of(PromptFile(v)) = "v1"

C7_Witness ==
    /\ last.op = "rollback" /\ last.result = "true"
    /\ lastDeployed = "v2"
    /\ last.before = "v3"

\* C8: deploy(version) for a version whose prompt file does not exist returns
\* false and changes nothing in the store.
C8_MissingVersionNoEffect ==
    [][(last' # last /\ last'.op = "deploy" /\ ~last'.existed) =>
          (last'.result = "false" /\ UNCHANGED storeVars)]_vars

C8_Witness ==
    /\ last.op = "deploy" /\ ~last.dry /\ ~last.existed /\ last.result = "false"
    /\ PromptFile("current").exists
    /\ backups # {}

\* C3 (as stated): after a successful deployment of version v, the next
\* recommendation request, served without a restart of the recommender, builds
\* its prompt from version v's template.
C3_RequestUsesDeployedVersion ==
    (rec.op = "recommend" /\ rec.fresh) => rec.path = rec.deployed

\* C3 (amended): a recommendation request builds its prompt from the file
\* strategy_<V>.txt, V being the STRATEGY_PROMPT_VERSION the process was
\* started with (v1 by default), or from strategy_v1.txt when that file does
\* not exist, whatever version has been deployed since.
C3_RequestUsesStartVersion ==
    (rec.op = "recommend" /\ rec.result = "ok") =>
        rec.path = (IF rec.procExisted THEN rec.proc ELSE "v1")

C3_Witness ==
    /\ rec.op = "recommend" /\ rec.result = "ok"
    /\ rec.fresh /\ rec.deployed = "v2"
    /\ rec.proc = "v1" /\ rec.path = "v1"

\* C9: recommend never raises: for every input with quantity > 0 and every
\* failure of an internal step it returns the suggestion of the rule fallback
\* for the same inputs.
C9_FailureFallsBackToRule ==
    (rec.op = "recommend" /\ rec.fault # "none") =>
        /\ rec.result = "ok"
        /\ rec.suggestion =
               _mock_strategy_suggestion(
                   rec.security, rec.quantity,
                   OrderPct(rec.quantity, get_market_context(rec.security).adv),
                   rec.time_in_force)

\* C10: the rule fallback depends on orderPctAdv = 100*quantity/adv alone:
\* above 10 it gives VWAP/HIGH, above 5 up to 10 VWAP/MODERATE, above 1 up to
\* 5 TWAP/LOW, up to 1 TWAP/LOW; exactly 1, 5 and 10 fall in the band below.
C10_RuleBands ==
    rec.op = "rule" =>
        LET q == 100 * rec.quantity
            adv == get_market_context(rec.security).adv
            got == <<rec.suggestion.suggested_strategy, rec.suggestion.market_impact_risk>>
        IN /\ q > 10 * adv => got = <<"VWAP", "HIGH">>
           /\ (q > 5 * adv /\ q <= 10 * adv) => got = <<"VWAP", "MODERATE">>
           /\ (q > adv /\ q <= 5 * adv) => got = <<"TWAP", "LOW">>
           /\ q <= adv => got = <<"TWAP", "LOW">>

C10_Witness ==
    /\ rec.op = "rule"
    /\ rec.security = "TSLA" /\ rec.time_in_force = "FOK"
    /\ 100 * rec.quantity = 10 * get_market_context(rec.security).adv
    /\ rec.suggestion.suggested_strategy = "VWAP"
    /\ rec.suggestion.market_impact_risk = "MODERATE"

\* C11 (as stated): for AAPL (adv 52,000,000) and quantity 5000 the rule path
\* computes orderPctAdv of about 9.62 and returns VWAP with risk MODERATE and
\* no size-split warning.
C11_SmallOrderScenarioAsStated ==
    (rec.op = "rule" /\ rec.security = "AAPL" /\ rec.quantity = 5000) =>
        /\ rec.suggestion.context.order_pct_adv = 962
        /\ rec.suggestion.suggested_strategy = "VWAP"
        /\ rec.suggestion.market_impact_risk = "MODERATE"
        /\ rec.suggestion.warnings = <<>>

\* C11 (amended): for AAPL (adv 52,000,000) and quantity 5000 the rule path
\* computes orderPctAdv 0.01 (0.0096 rounded to two places) and returns TWAP
\* with risk LOW and no size-split warning; orderPctAdv 9.62 with VWAP and
\* MODERATE is the result for quantity 5,000,000.
C11_SmallOrderScenario ==
    (rec.op = "rule" /\ rec.security = "AAPL") =>
        /\ rec.quantity = 5000 =>
              /\ rec.suggestion.context.adv = 52000000
              /\ rec.suggestion.context.order_pct_adv = 1
              /\ rec.suggestion.suggested_strategy = "TWAP"
              /\ rec.suggestion.market_impact_risk = "LOW"
              /\ rec.suggestion.warnings = <<>>
        /\ rec.quantity = 5000000 =>
              /\ rec.suggestion.context.order_pct_adv = 962
              /\ rec.suggestion.suggested_strategy = "VWAP"
              /\ rec.suggestion.market_impact_risk = "MODERATE"
              /\ rec.suggestion.warnings = <<>>

C11_Witness ==
    /\ rec.op = "rule" /\ rec.security = "AAPL" /\ rec.quantity = 5000
    /\ rec.suggestion.suggested_strategy = "TWAP"
    /\ rec.suggestion.context.order_pct_adv = 1

\* C12: the rule fallback emits the split-across-days warning exactly when
\* orderPctAdv > 15 (none at exactly 15), so only together with VWAP/HIGH;
\* quantity 9,000,000 of AAPL gives VWAP, HIGH and the warning.
C12_SplitWarning ==
    rec.op = "rule" =>
        LET q == 100 * rec.quantity
            adv == get_market_context(rec.security).adv
            warned == rec.suggestion.warnings # <<>>
        IN /\ warned <=> q > 15 * adv
           /\ warned => /\ rec.suggestion.suggested_strategy = "VWAP"
                        /\ rec.suggestion.market_impact_risk = "HIGH"
           /\ (rec.security = "AAPL" /\ rec.quantity = 9000000) =>
                 /\ warned
                 /\ rec.suggestion.suggested_strategy = "VWAP"
                 /\ rec.suggestion.market_impact_risk = "HIGH"
                 /\ rec.suggestion.context.order_pct_adv = 1731

C12_Witness ==
    /\ rec.op = "rule" /\ rec.security = "AAPL" /\ rec.quantity = 9000000
    /\ rec.suggestion.warnings = <<"consider splitting across multiple days">>
    /\ rec.suggestion.market_impact_risk = "HIGH"

\* C13: after a capture succeeds, a load whose window includes the day of the
\* capture returns a record whose interaction id, input, AI suggestion, user
\* correction and metadata are the captured ones, whatever other captures
\* with other ids happened before or after.
C13_CaptureLoadRoundTrip ==
    capt.op = "load" =>
        \A p \in DOMAIN captured :
            (captured[p].state = "once" /\ p[1] > capt.day - capt.days) =>
                \E r \in capt.loaded :
                    \A key \in {"interaction_id", "input", "ai_suggestion",
                                "user_correction", "metadata"} :
                        Field(r, key, JInt(0)) = Field(captured[p].record, key, JStr(""))

C13_Witness ==
    /\ capt.op = "load" /\ capt.days = 1 /\ capt.day = 2
    /\ Cardinality(capt.loaded) = 1
    /\ \E p \in DOMAIN captured :
          /\ p[1] = 2 /\ captured[p].state = "once"
          /\ captured[p].record \in capt.loaded
    /\ \E p \in DOMAIN captured : p[1] = 1 /\ captured[p].state = "once"

\* C14: a capture whose write fails leaves no partial or truncated file
\* visible under the record's final path, so every file of the store holds a
\* complete record.
C14_NoPartialFileVisible ==
    \A p \in DOMAIN corrFiles : json_load(corrFiles[p]).ok

\* C15: once capture has written a record, no later operation updates or
\* deletes it.
C15_RecordsImmutable ==
    [][\A p \in DOMAIN corrFiles :
          json_load(corrFiles[p]).ok =>
              (p \in DOMAIN corrFiles' /\ corrFiles'[p] = corrFiles[p])]_vars

\* C16: the analyzer emits a frequent_correction pattern exactly when the
\* most frequent (AI strategy, user strategy) pair occurs at least 3 times,
\* and then a single one, for a pair of that highest frequency; a list
\* whose top pair occurs fewer than 3 times gets none.
C16_FrequentCorrectionPattern ==
    ana.op = "analyze" =>
        LET sc == strategy_corrections(ana.corrections)
            pair(c) == <<GetStr(c, "ai_suggestion", "strategy"),
                         GetStr(c, "user_correction", "strategy")>>
            occurrences(pr) ==
                Cardinality({i \in 1..Len(sc) : pair(sc[i]) = pr /\ pr[1] # "" /\ pr[2] # ""})
            top == Max({occurrences(pair(sc[i])) : i \in 1..Len(sc)} \cup {0})
            frequent == SelectSeq(ana.analysis.patterns,
                                  LAMBDA pat : pat.type = "frequent_correction")
        IN /\ Len(frequent) = (IF top >= 3 THEN 1 ELSE 0)
           /\ \A i \in 1..Len(frequent) :
                 /\ frequent[i].frequency = top
                 /\ occurrences(<<frequent[i].ai_suggested, frequent[i].user_chose>>) = top

C16_Witness ==
    /\ ana.op = "analyze"
    /\ Len(ana.corrections) = 4
    /\ Len(ana.analysis.correction_pairs) = 2
    /\ \E i \in 1..Len(ana.analysis.patterns) :
          /\ ana.analysis.patterns[i].type = "frequent_correction"
          /\ ana.analysis.patterns[i].frequency = 3
          /\ ana.analysis.patterns[i].percentage = 750

\* the list with its entries i and j exchanged (i < j)
Exchange(list, i, j) ==
    SubSeq(list, 1, i - 1) \o <<list[j]>> \o SubSeq(list, i + 1, j - 1)
        \o <<list[i]>> \o SubSeq(list, j + 1, Len(list))

\* the security-preference results of an analysis
SecurityPreferences(analysis) ==
    {[security |-> analysis.patterns[i].security,
      preferred_strategy |-> analysis.patterns[i].preferred_strategy,
      frequency |-> analysis.patterns[i].frequency] :
        i \in {k \in 1..Len(analysis.patterns) :
                  analysis.patterns[k].type = "security_specific"}}

\* C17: the analyzer is order-independent: exchanging two neighbouring
\* entries of the correction list (such exchanges generate every
\* permutation) changes neither the strategy frequency counts, nor the set
\* of (pair, frequency, percentage) entries, nor the security-preference
\* results.
C17_OrderIndependent ==
    ana.op = "analyze" =>
        \A i \in 1..(Len(ana.corrections) - 1) :
            \A other \in {analyze_strategy_corrections(Exchange(ana.corrections, i, i + 1))} :
               /\ Range(other.ai_strategy_counts) = Range(ana.analysis.ai_strategy_counts)
               /\ Range(other.user_strategy_counts) = Range(ana.analysis.user_strategy_counts)
               /\ Range(other.correction_pairs) = Range(ana.analysis.correction_pairs)
               /\ SecurityPreferences(other) = SecurityPreferences(ana.analysis)

\* the securities of the strategy corrections and their numbers of corrections
CorrectionsFor(sc, security) ==
    Cardinality({i \in 1..Len(sc) : GetStr(sc[i], "input", "security") = security})
ChoicesFor(sc, security, strategy) ==
    Cardinality({i \in 1..Len(sc) : /\ GetStr(sc[i], "input", "security") = security
                                    /\ GetStr(sc[i], "user_correction", "strategy") = strategy})
SecuritiesOf(sc) == {GetStr(sc[i], "input", "security") : i \in 1..Len(sc)} \ {""}
StrategiesOf(sc) == {GetStr(sc[i], "user_correction", "strategy") : i \in 1..Len(sc)} \ {""}

\* C18 (as stated): every one of the 3 most-corrected securities that has at
\* least 2 corrections gets a security_specific pattern.
C18_PatternForEveryTopSecurity ==
    ana.op = "analyze" =>
        LET sc == strategy_corrections(ana.corrections)
        IN \A s \in SecuritiesOf(sc) :
              (/\ CorrectionsFor(sc, s) >= 2
               /\ Cardinality({t \in SecuritiesOf(sc) \ {s} :
                                  CorrectionsFor(sc, t) >= CorrectionsFor(sc, s)}) < 3)
              => \E pref \in SecurityPreferences(ana.analysis) : pref.security = s

\* C18 (amended): the analyzer emits at most 3 security_specific patterns,
\* one for each of the 3 most-corrected securities that has at least 2
\* corrections of which at least one names a user strategy; the pattern
\* names a most frequent user strategy for that security with its frequency,
\* which is at most the security's number of corrections.  Three corrections
\* TWAP to VWAP for one security give a frequent_correction pattern (TWAP to
\* VWAP, frequency 3, 100%) and a security_specific pattern.
C18_SecuritySpecificPatterns ==
    ana.op = "analyze" =>
        LET sc == strategy_corrections(ana.corrections)
            prefs == SecurityPreferences(ana.analysis)
            specific == SelectSeq(ana.analysis.patterns,
                                  LAMBDA pat : pat.type = "security_specific")
        IN /\ Len(specific) <= 3 /\ Cardinality(prefs) = Len(specific)
           /\ \A pref \in prefs :
                 /\ CorrectionsFor(sc, pref.security) >= 2
                 /\ Cardinality({t \in SecuritiesOf(sc) :
                        CorrectionsFor(sc, t) > CorrectionsFor(sc, pref.security)}) < 3
                 /\ pref.frequency = ChoicesFor(sc, pref.security, pref.preferred_strategy)
                 /\ pref.frequency >= 1
                 /\ pref.frequency <= CorrectionsFor(sc, pref.security)
                 /\ \A u \in StrategiesOf(sc) :
                       ChoicesFor(sc, pref.security, u) <= pref.frequency
           /\ \A s \in SecuritiesOf(sc) :
                 (/\ CorrectionsFor(sc, s) >= 2
                  /\ \E u \in StrategiesOf(sc) : ChoicesFor(sc, s, u) >= 1
                  /\ Cardinality({t \in SecuritiesOf(sc) \ {s} :
                         CorrectionsFor(sc, t) >= CorrectionsFor(sc, s)}) < 3)
                 => \E pref \in prefs : pref.security = s
           /\ (/\ Len(ana.corrections) = 3
               /\ \A i \in 1..3 : ana.corrections[i] =
                      Correction("strategy_suggestion", "TWAP", "VWAP", "AAPL", 1000))
              => /\ Len(ana.analysis.patterns) = 2
                 /\ ana.analysis.patterns[1].type = "frequent_correction"
                 /\ ana.analysis.patterns[1].ai_suggested = "TWAP"
                 /\ ana.analysis.patterns[1].user_chose = "VWAP"
                 /\ ana.analysis.patterns[1].frequency = 3
                 /\ ana.analysis.patterns[1].percentage = 1000
                 /\ prefs = {[security |-> "AAPL", preferred_strategy |-> "VWAP",
                              frequency |-> 3]}

C18_Witness ==
    /\ ana.op = "analyze"
    /\ Cardinality(SecuritiesOf(strategy_corrections(ana.corrections))) = 4
    /\ \A s \in CorrectedSecurities :
          CorrectionsFor(strategy_corrections(ana.corrections), s) = 2
    /\ Cardinality(SecurityPreferences(ana.analysis)) = 3

\* C19: a train call for which the number of loaded corrections or the
\* number of strategy corrections among them is below the minimum returns
\* the non-success result and writes nothing: prompt files, metadata files,
\* backups and logs, hence the set of versions and the next version number,
\* are as before the call.
C19_ShortfallTrainsNothing ==
    [][\A counts \in CorrectionCounts, patterns \in PatternLists :
          (/\ Train(counts[1], counts[2], patterns)
           /\ (counts[1] < MinCorrections \/ counts[2] < MinCorrections))
          => /\ last' = TrainOp("", "false")
             /\ prompts' = prompts /\ metaFiles' = metaFiles
             /\ backups' = backups /\ deployLogs' = deployLogs
             /\ version_numbers' = version_numbers
             /\ new_version_num' = new_version_num]_vars

C19_Witness ==
    /\ last = TrainOp("", "false")
    /\ trainCount >= 1
    /\ new_version_num = trainCount + 2
    /\ lastDeployed # "v1"

\* C20: a successful train derives the new version from the active policy:
\* the metadata it writes names as based_on the version get_current_version
\* returned when train was called, and the prompt it writes is that
\* version's text with the learned examples added.
C20_TrainBasedOnCurrentVersion ==
    [][\A counts \in CorrectionCounts, patterns \in PatternLists :
          (Train(counts[1], counts[2], patterns) /\ last'.result = "true")
          => /\ metaFiles'[last'.ver].based_on = get_current_version
             /\ prompts'[last'.ver] =
                    create_updated_prompt(load_prompt(get_current_version),
                                          generate_few_shot_examples(patterns),
                                          [i \in 1..Len(patterns) |-> patterns[i].insight])]_vars

\* part occurs in text as a run of consecutive tokens
Contains(text, part) ==
    \E i \in 0..(Len(text) - Len(part)) : SubSeq(text, i + 1, i + Len(part)) = part

\* C21: prompt augmentation keeps the base prompt intact and its result
\* contains every few-shot example and every insight: when the anchor is
\* present everything added stands immediately before its first occurrence,
\* when it is absent everything added stands after the base prompt.
C21_AugmentKeepsEverything ==
    aug.op = "augment" =>
        LET base == aug.base_prompt
            head == IF insert_marker \in Range(base) THEN Before(base, insert_marker) ELSE base
            tail == SubSeq(base, Len(head) + 1, Len(base))
        IN /\ Len(aug.updated) >= Len(base)
           /\ SubSeq(aug.updated, 1, Len(head)) = head
           /\ SubSeq(aug.updated, Len(aug.updated) - Len(tail) + 1, Len(aug.updated)) = tail
           /\ \A i \in 1..Len(aug.few_shot_examples) :
                 Contains(SubSeq(aug.updated, Len(head) + 1, Len(aug.updated) - Len(tail)),
                          aug.few_shot_examples[i])
           /\ \A i \in 1..Len(aug.insights) :
                 Contains(SubSeq(aug.updated, Len(head) + 1, Len(aug.updated) - Len(tail)),
                          <<aug.insights[i]>>)

\* C22: a non-dry-run deploy of an existing version different from the
\* current one has created a backup named after the previously current
\* version by the time the current artifact is switched (also when the
\* switch then fails); a deploy of the version that is already current
\* creates no backup.
C22_BackupBeforeSwitch ==
    [][\A version \in VersionArgs :
          (Deploy(version, FALSE) /\ version_file_exists(version))
          => IF version # get_current_version
             THEN /\ [version |-> get_current_version, ts |-> now] \in backups'
                  /\ latestBackup' = [version |-> get_current_version, ts |-> now]
                  /\ backups' \ backups \subseteq {latestBackup'}
             ELSE /\ backups' = backups
                  /\ latestBackup' = latestBackup
                  /\ last'.result = "true"]_vars

C22_Witness ==
    /\ last.op = "deploy" /\ ~last.dry /\ last.result = "true"
    /\ last.before = "v2" /\ last.ver = "v3"
    /\ latestBackup.version = "v2"
    /\ get_current_version = "v3"

\* C23: a train run overwrites the prompt file or the metadata file of
\* another train run only when the runs are not serialized and both have
\* scanned the store before either wrote; with serialized runs no file of a
\* version is ever written twice.
C23_TrainRaceNeedsConcurrency ==
    /\ (race.prompt_overwritten # {} \/ race.metadata_overwritten # {})
          => (~race.serialized /\ race.both_scanned)
    /\ race.serialized =>
          (/\ ~race.both_scanned
           /\ trainCount = Cardinality(DOMAIN metaFiles)
           /\ \A p, q \in Trainers :
                 (p # q /\ race.proc[p].pc # "idle") => race.proc[q].pc = "idle")

C23_Witness ==
    /\ ~race.serialized
    /\ race.prompt_overwritten = {"v2"}
    /\ race.metadata_overwritten = {"v2"}
    /\ trainCount = 2
    /\ DOMAIN prompts = {"v1", "v2"}
    /\ \A p \in Trainers : race.proc[p].pc = "idle"

\* C24: once the concurrent captures have finished, every correction file
\* holds the complete record of exactly one of the captures made for its
\* path, never a mixture of two; captures with distinct interaction ids are
\* all stored intact.
C24_NoMixedRecord ==
    (\A p \in Capturers : writers.proc[p].pc = "idle") =>
        /\ \A d \in writers.done : d.path \in DOMAIN corrFiles
        /\ \A path \in DOMAIN corrFiles :
              \E d \in writers.done : d.path = path /\ corrFiles[path] = d.text

\* C25: a load returns the records of the date partitions of the last
\* capt.days calendar days whatever the time of day at which it runs: the
\* same load at any other time of the same day returns the same records,
\* and the records of today's partition are among them.
C25_WindowByCalendarDate ==
    [][\A days \in 1..MaxDay, time \in TimesOfDay :
          LoadAt(days, time)
          => /\ \A other \in TimesOfDay : load_corrections_at(days, other) = capt'.loaded
             /\ \A p \in DOMAIN corrFiles :
                   (p[1] = today /\ json_load(corrFiles[p]).ok)
                   => json_load(corrFiles[p]).v \in capt'.loaded]_vars

\* a JSON value that has the members of a correction record
ValidRecord(v) ==
    /\ v.t = "dict"
    /\ \A key \in {"interaction_id", "timestamp", "input", "ai_suggestion",
                   "user_correction", "metadata"} :
          \E i \in 1..Len(v.items) : v.items[i].k = key

\* C26: a load does not abort on bad data and returns exactly the valid
\* records of its window: the files of a directory whose name is no date are
\* skipped, a file that does not parse as a valid record is skipped, and
\* every valid record of a directory in the window is returned.
C26_LoadSkipsBadData ==
    [][\A days \in 1..MaxDay, time \in TimesOfDay :
          LoadAt(days, time)
          => /\ capt'.result = "loaded"
             /\ capt'.loaded =
                   {json_load(corrFiles[p]).v :
                       p \in {x \in DOMAIN corrFiles :
                                 /\ x[1] # NotADate
                                 /\ dir_in_window_at(x[1], days, time)
                                 /\ json_load(corrFiles[x]).ok
                                 /\ ValidRecord(json_load(corrFiles[x]).v)}}]_vars

\* C27: every suggestion recommend returns names a strategy of VWAP, TWAP,
\* POV, MOC; a completion that names no strategy, or one outside that set,
\* is returned with TWAP.
C27_StrategyAlwaysAllowed ==
    (rec.op = "recommend" /\ rec.result = "ok") =>
        /\ rec.suggestion.suggested_strategy \in ALLOWED_STRATEGIES
        /\ (/\ ~rec.mock /\ rec.fault = "none"
            /\ rec.suggestion.reasoning \in {"hide the size", "no strategy named"})
               => rec.suggestion.suggested_strategy = "TWAP"

\* a completion naming ICEBERG was served by the model path and came back as TWAP
C27_Witness ==
    /\ rec.op = "recommend" /\ rec.result = "ok"
    /\ ~rec.mock /\ rec.fault = "none"
    /\ rec.suggestion.reasoning = "hide the size"
    /\ rec.suggestion.suggested_strategy = "TWAP"

\* the order sizes the analyzer collects, and the samples of one user strategy
QuantitiesOf(sc) == Cardinality({i \in 1..Len(sc) : GetQuantity(sc[i]) # 0})
SamplesOf(sc, strategy) ==
    Cardinality({i \in 1..Len(sc) : /\ GetQuantity(sc[i]) # 0
                                    /\ GetStr(sc[i], "user_correction", "strategy") = strategy})
SizePatterns(analysis) ==
    {k \in 1..Len(analysis.patterns) : analysis.patterns[k].type = "order_size_threshold"}

\* C28: the analyzer emits one order_size_threshold pattern for a user
\* strategy exactly when at least 5 of the strategy corrections carry a
\* quantity and that strategy has at least 2 quantity samples; below 5
\* quantities it emits none, however many samples a strategy has.
C28_SizeThresholdGate ==
    ana.op = "analyze" =>
        LET sc == strategy_corrections(ana.corrections)
            emitted == SizePatterns(ana.analysis)
        IN /\ \A u \in ALLOWED_STRATEGIES :
                 (\E k \in emitted : ana.analysis.patterns[k].preferred_strategy = u)
                     <=> (QuantitiesOf(sc) >= 5 /\ SamplesOf(sc, u) >= 2)
           /\ \A k \in emitted :
                 /\ ana.analysis.patterns[k].preferred_strategy \in StrategiesOf(sc)
                 /\ ana.analysis.patterns[k].count =
                        SamplesOf(sc, ana.analysis.patterns[k].preferred_strategy)
                 /\ \A j \in emitted :
                       ana.analysis.patterns[j].preferred_strategy =
                           ana.analysis.patterns[k].preferred_strategy => j = k
           /\ QuantitiesOf(sc) < 5 => emitted = {}

\* 5 quantities, of which one strategy has 2 samples or more and another has
\* one: a pattern for the first and none for the second
C28_Witness ==
    /\ ana.op = "analyze"
    /\ QuantitiesOf(strategy_corrections(ana.corrections)) = 5
    /\ SamplesOf(strategy_corrections(ana.corrections), "POV") = 1
    /\ Cardinality(SizePatterns(ana.analysis)) = 1
    /\ \E k \in SizePatterns(ana.analysis) :
          ana.analysis.patterns[k].preferred_strategy = "VWAP"

\* C29: every record capture writes carries correction_type
\* 'strategy_suggestion' and version 'v1' in its metadata, whatever version is
\* deployed when it is written and whatever train and deploy do afterwards;
\* the analyzer's filter keeps every such record.
C29_CaptureRecordsV1 ==
    \A path \in DOMAIN corrFiles :
        LET loaded == json_load(corrFiles[path])
        IN /\ loaded.ok
           /\ GetStr(loaded.v, "metadata", "correction_type") = "strategy_suggestion"
           /\ GetStr(loaded.v, "metadata", "version") = "v1"
           /\ strategy_corrections(<<loaded.v>>) = <<loaded.v>>

\* a record captured while v2 was deployed
C29_Witness ==
    /\ capt.op = "capture" /\ capt.result = "saved"
    /\ capt.deployed = "v2"
    /\ capt.path \in DOMAIN corrFiles
    /\ GetStr(json_load(corrFiles[capt.path]).v, "metadata", "version") = "v1"

\* C30: whatever the interleaving of call_tool and connect on one MCPClient
\* that starts unconnected, no tool call is issued on a session before the
\* initialize() of that session has returned.
C30_NoCallBeforeInitialize ==
    \A call \in mcp.calls : call.initialized

====
